---- MODULE Spec2Model ----
(***************************************************************************)
(* The SQLite message store of kiwibnc (src/worker/messagestores/sqlite):  *)
(* the data table (de-duplicated payloads), the logs table (events), the   *)
(* LRU cache in front of dataId, the store queue and its worker, and the   *)
(* retention cleanup task with its orphan sweep; and the replyrouter        *)
(* extension (src/extensions/replyrouter), which routes the replies of an  *)
(* upstream to the clients that asked for them.                            *)
(*                                                                         *)
(* The source holds two revisions of the store.  They differ in            *)
(* storeMessageLoop (db.transaction() and setImmediate in the later one,   *)
(* exec('BEGIN') / await dataId / exec('COMMIT') and a direct recursive    *)
(* call in the earlier one) and in processRetention (try/catch around      *)
(* runDataCleanup in the later one).  The variable `variant` selects the   *)
(* revision: "tracked" is the later one, "raw" the earlier one.            *)
(*                                                                         *)
(* JavaScript strings are sequences of one-character strings; the byte     *)
(* 0x01 is the character "SOH".  Times are integers; one unit is one day.  *)
(*                                                                         *)
(* The process is single threaded.  A handler that has opened a            *)
(* transaction and not yet committed it holds the thread: while it does,   *)
(* only its own next step is enabled.  Timer and setImmediate callbacks    *)
(* (macrotasks) run only when no promise continuation (microtask) is       *)
(* pending.                                                                *)
(***************************************************************************)
EXTENDS Integers, Sequences, FiniteSets, TLC

\* ------------------------------------------------------------------ bounds
MaxStores == 3      \* storeMessage calls in one behaviour
MaxTime == 2        \* the clock runs from 0 to MaxTime
BATCH_SIZE == 2     \* rows per retention batch (150 in the source, scaled)
RetentionDays == 1  \* the retention of a class that has one (config value)
MaxDroppedTicks == 1 \* timer ticks counted while one retention pass runs
DEFAULT_LENGTH == 2 \* rows of a query without length (50 in the source, scaled)
MaxLength == 1      \* the largest length a query is called with
MaxExpects == 3     \* message_from_client events in one behaviour
MaxClock == 2       \* the clock of the replyrouter runs from 0 to MaxClock

\* --------------------------------------------------------------- constants
MSG_TYPE_PRIVMSG == 1
MSG_TYPE_NOTICE == 2

\* ----------------------------------------------------------------- strings
SOH == "SOH"
Str_chan == <<"#", "c">>
Str_amp == <<"&", "c">>
Str_me == <<"m", "e">>
Str_bob == <<"b">>
Str_hi == <<"h">>
Str_action == <<SOH, "A", "C", "T", "I", "O", "N", " ", "w", SOH>>
Str_ping == <<SOH, "P", "I", "N", "G", SOH>>

Range(f) == { f[i] : i \in DOMAIN f }

\* String.prototype.startsWith
startsWith(s, p) == Len(p) <= Len(s) /\ SubSeq(s, 1, Len(p)) = p

RECURSIVE join(_, _)
\* Array.prototype.join: the strings of `strs` with `sep` between them
join(strs, sep) ==
    IF strs = <<>> THEN <<>>
    ELSE IF Len(strs) = 1 THEN strs[1]
    ELSE strs[1] \o sep \o join(Tail(strs), sep)

\* Helpers.isoTime(date): the ISO-8601 text of a time
isoTime(t) == "T" \o ToString(t)

\* new Date(iso).getTime(): the time an ISO-8601 text denotes
parseTime(s) == CHOOSE t \in 0..(MaxTime + 1) : isoTime(t) = s

\* message.tags is an object: a sequence of <<key, value>> in insertion order
tagGet(tags, key) ==
    IF \E i \in 1..Len(tags) : tags[i][1] = key
    THEN tags[CHOOSE i \in 1..Len(tags) : tags[i][1] = key][2]
    ELSE ""

RECURSIVE jsonMembers(_)
jsonMembers(tags) ==
    IF tags = <<>> THEN <<>>
    ELSE <<tags[1][1], ":", tags[1][2]>>
         \o (IF Len(tags) > 1 THEN <<",">> ELSE <<>>)
         \o jsonMembers(Tail(tags))

\* JSON.stringify(message.tags)
JSONstringify(tags) == <<"{">> \o jsonMembers(tags) \o <<"}">>

\* ------------------------------------------------------------------ inputs
\* One argument record of storeMessage(message, upstreamCon, clientCon):
\* command, params, tags and nick of the message, authUserId, authNetworkId
\* and nick of upstreamCon.state, and clientCon.state.nick (<<>> when
\* clientCon is null).
Arg(cmd, params, tags, nick, clientNick) ==
    [command |-> cmd, params |-> params, tags |-> tags, nick |-> nick,
     authUserId |-> 1, authNetworkId |-> 1, upstreamNick |-> Str_me,
     clientNick |-> clientNick]

Inputs ==
    { Arg("PRIVMSG", <<Str_chan, Str_hi>>, <<>>, Str_bob, <<>>),
      Arg("PRIVMSG", <<Str_me, Str_hi>>, <<>>, Str_bob, <<>>),
      Arg("PRIVMSG", <<Str_amp, Str_action>>, << <<"msgid", "m1">> >>, Str_bob, <<>>),
      Arg("PRIVMSG", <<Str_chan, Str_ping>>, <<>>, Str_bob, <<>>),
      Arg("JOIN", <<Str_chan>>, <<>>, Str_bob, <<>>),
      Arg("NOTICE", <<Str_bob, Str_hi>>, << <<"time", isoTime(0)>> >>, Str_bob, Str_me) }

\* ------------------------------------------------------------------- state
VARIABLES
    variant,                \* "tracked" or "raw": the revision of the store
    retentionDaysChannels,  \* logging.retention_days_channels
    retentionDaysPMs,       \* logging.retention_days_pms
    now,                    \* the wall clock
    data,                   \* table data: a set of rows [id, data]
    logs,                   \* table logs: its rows in rowid order
    dataCache,              \* this.dataCache: a function from payloads to ids
    storeQueue,             \* this.storeQueue
    storeQueueLooping,      \* this.storeQueueLooping
    ing,                    \* the storeMessageLoop invocation inside its transaction
    immediates,             \* pending setImmediate(() => this.storeMessageLoop())
    inTransaction,          \* db.inTransaction as the engine reports it
    openTx,                 \* the writers whose transaction is open
    cleanupRunning,         \* this.cleanupRunning
    ret,                    \* the running runCleanupTask: processRetention's locals
    nstores,                \* history: the number of storeMessage calls so far
    interned,               \* history: payload -> id last returned by dataId,
                            \*   forgotten when an orphan sweep deletes its row
    swept,                  \* history: the payloads an orphan sweep has deleted
    lastSweep,              \* history: "none", or how the last orphan sweep ended:
                            \*   "done" or "failed"
    lastStore,              \* history: the arguments of the last storeMessage call
    passes,                 \* history: the runCleanupTask invocations that went past
                            \*   the cleanupRunning test and have not ended, the
                            \*   timer ticks the running one has turned away, and of
                            \*   the running or last one the increments of
                            \*   retention.cleanup.errors, the delete batches that
                            \*   raised and the busy waits given up
    reply,                  \* the result of a query method, until its caller has it
    leftover,               \* history: the payloads a failed orphan sweep has left
                            \*   without a logs row: `new` in the running or last
                            \*   runCleanupTask, `old` in the ones before it
    rejected,               \* history: the storeMessageLoop() promises that were
                            \*   rejected (nobody awaits them)
    shutdown,               \* history: the shutdown of the process has begun
    assigned,               \* history: every row [id, data] the data table has held
    expecting_replies,      \* replyrouter: per client, the temp key expecting_replies
    event,                  \* replyrouter: the last message_to_clients event, after
                            \*   the hook has run
    clock,                  \* replyrouter: Date.now()
    nexpects                \* history: the routes message_from_client has added

vars == <<variant, retentionDaysChannels, retentionDaysPMs, now, data, logs,
          dataCache, storeQueue, storeQueueLooping, ing, immediates,
          inTransaction, openTx, cleanupRunning, ret, nstores, interned,
          swept, lastSweep, lastStore, passes, reply, leftover, rejected,
          shutdown, assigned, expecting_replies, event, clock, nexpects>>

\* the state of the replyrouter extension
routerVars == <<expecting_replies, event, clock, nexpects>>

\* the state of the message store
storeVars == <<variant, retentionDaysChannels, retentionDaysPMs, now, data, logs,
               dataCache, storeQueue, storeQueueLooping, ing, immediates,
               inTransaction, openTx, cleanupRunning, ret, nstores, interned,
               swept, lastSweep, lastStore, passes, reply, leftover, rejected,
               shutdown, assigned>>

\* the clients of the bouncer
Clients == {"client-1", "client-2"}

\* the temp key of a client that was never set, or was deleted by
\* tempSet(key, null)
NoRoutes == [isNull |-> TRUE, routes |-> <<>>]

\* no message_to_clients event yet
NoEvent == [command |-> "none", clients |-> <<>>, routed |-> FALSE]

EmptyFn == <<>>

ingNone == [pc |-> "none"]
retNone == [pc |-> "none", isChannel |-> TRUE, busyRetries |-> 0,
            rows |-> <<>>, totalDeleted |-> 0]

\* no storeMessage call yet
NoStore == [command |-> "none"]

\* no query result waits for its caller
NoReply == [op |-> "none"]

Init ==
    /\ variant \in {"tracked", "raw"}
    /\ retentionDaysChannels \in {0, RetentionDays}
    /\ retentionDaysPMs \in {0, RetentionDays}
    /\ now = 0
    /\ data = {}
    /\ logs = <<>>
    /\ dataCache = EmptyFn
    /\ storeQueue = <<>>
    /\ storeQueueLooping = FALSE
    /\ ing = ingNone
    /\ immediates = 0
    /\ inTransaction = FALSE
    /\ openTx = {}
    /\ cleanupRunning = FALSE
    /\ ret = retNone
    /\ nstores = 0
    /\ interned = EmptyFn
    /\ swept = {}
    /\ lastSweep = "none"
    /\ lastStore = NoStore
    /\ passes = [active |-> 0, dropped |-> 0, errors |-> 0, raised |-> 0, gaveUp |-> 0]
    /\ reply = NoReply
    /\ leftover = [old |-> {}, new |-> {}]
    /\ rejected = 0
    /\ shutdown = FALSE
    /\ assigned = {}
    /\ expecting_replies = [c \in Clients |-> NoRoutes]
    /\ event = NoEvent
    /\ clock = 0
    /\ nexpects = 0

\* The thread is inside a synchronous section that has a transaction open.
ThreadHeld ==
    \/ ret.pc \in {"batch", "sweep"}
    \/ variant = "tracked" /\ ing.pc = "txn"
    \/ reply # NoReply

\* No synchronous section is running: other code of the same turn may run.
ThreadFree == ~ThreadHeld

\* (mutant) the awaits of the raw storeMessageLoop let timers run
LoopIdle_TimersDuringAwait == ThreadFree

\* The event loop may start a macrotask (a timer or a setImmediate callback):
\* nothing is running and no promise continuation is pending.
LoopIdle == ThreadFree /\ ing.pc = "none"

\* ------------------------------------------------------------------ dataId
\* the JavaScript value undefined
Undefined == <<"undefined">>

\* SQL NULL: the data of a row inserted with NULL, and a column of a result
\* row whose LEFT JOIN found no data row
Null == <<"NULL">>

Max(S) == CHOOSE x \in S : \A y \in S : y <= x

\* INTEGER PRIMARY KEY without AUTOINCREMENT: one more than the largest rowid
nextRowid(tbl) == IF tbl = {} THEN 1 ELSE Max({d.id : d \in tbl}) + 1

\* (mutant) INSERT OR REPLACE: the row of a known payload gets a new id
stmtInsertData_Replace(tbl, b) ==
    { d \in tbl : d.data # b } \cup {[id |-> nextRowid(tbl), data |-> b]}

\* (mutant) no UNIQUE constraint on data.data
stmtInsertData_NoUnique(tbl, b) == tbl \cup {[id |-> nextRowid(tbl), data |-> b]}

\* stmtInsertData.run(b) inside try/catch: the UNIQUE constraint rejects a
\* payload the table holds already, and the error is swallowed
stmtInsertData(tbl, b) ==
    IF \E d \in tbl : d.data = b
    THEN tbl
    ELSE tbl \cup {[id |-> nextRowid(tbl), data |-> b]}

\* stmtGetExistingDataId.get(b).id
stmtGetExistingDataId(tbl, b) == (CHOOSE d \in tbl : d.data = b).id

\* dataId(b) on the state s = [data, dataCache, interned, ids]: the returned
\* id is appended to s.ids
dataId(s, b) ==
    IF b = Undefined
    THEN \* bound as NULL: the cache has no such key, the INSERT adds a row
         \* (NULLs are distinct for UNIQUE), `data = NULL` selects no row,
         \* and dataId returns null (written 0)
         [s EXCEPT !.data = @ \cup {[id |-> nextRowid(@), data |-> Null]},
                   !.ids = Append(@, 0)]
    ELSE IF b \in DOMAIN s.dataCache
    THEN [s EXCEPT !.ids = Append(@, s.dataCache[b]),
                   !.interned = (b :> s.dataCache[b]) @@ @]
    ELSE LET tbl == stmtInsertData(s.data, b)
             id == stmtGetExistingDataId(tbl, b)
         IN [data |-> tbl,
             dataCache |-> (b :> id) @@ s.dataCache,
             interned |-> (b :> id) @@ s.interned,
             ids |-> Append(s.ids, id)]

\* -------------------------------------------------------- storeMessageLoop
\* message.params[i] (JavaScript index, from 0)
param(params, i) == IF i + 1 <= Len(params) THEN params[i + 1] ELSE Undefined

\* Helpers.extractBufferName(upstreamCon, message, 0): a channel keeps its
\* name, a message to our own nick belongs to the buffer of its sender
extractBufferName(a) ==
    LET target == IF Len(a.params) >= 1 THEN a.params[1] ELSE <<>>
    IN IF target = a.upstreamNick THEN a.nick ELSE target

\* message.params[1] && message.params[1][0] === '\x01'
isCtcp(a) ==
    /\ a.command \in {"PRIVMSG", "NOTICE"}
    /\ Len(a.params) >= 2
    /\ a.params[2] # <<>>
    /\ a.params[2][1] = SOH

\* (mutant) every CTCP is dropped, ACTION too
isDropped_AllCtcp(a) == isCtcp(a) \/ a.command \notin {"PRIVMSG", "NOTICE"}

\* the message leaves storeMessageLoop by one of its two early returns
isDropped(a) ==
    \/ isCtcp(a) /\ ~startsWith(a.params[2], <<SOH, "A", "C", "T", "I", "O", "N">>)
    \/ a.command \notin {"PRIVMSG", "NOTICE"}

\* the locals of storeMessageLoop for the dequeued entry e, at clock t (seq
\* and orig are history: the number of the storeMessage call and its arguments)
fields(e, t) ==
    LET a == e.args
        timeTag == tagGet(a.tags, "time")
    IN [userId |-> a.authUserId,
        networkId |-> a.authNetworkId,
        bufferName |-> extractBufferName(a),
        type |-> IF a.command = "PRIVMSG" THEN MSG_TYPE_PRIVMSG ELSE MSG_TYPE_NOTICE,
        data |-> param(a.params, 1),
        params |-> join(SubSeq(a.params, 1, Len(a.params) - 1), <<" ">>),
        msgId |-> IF tagGet(a.tags, "draft/msgid") # ""
                  THEN tagGet(a.tags, "draft/msgid") ELSE tagGet(a.tags, "msgid"),
        prefix |-> IF a.clientNick # <<>> THEN a.clientNick ELSE a.nick,
        time |-> parseTime(IF timeTag # "" THEN timeTag ELSE isoTime(t)),
        msgtags |-> JSONstringify(a.tags),
        seq |-> e.seq,
        orig |-> a]

\* the arguments of the five dataId calls, in call order
payloads(m) == <<m.bufferName, m.data, m.msgtags, m.prefix, m.params>>

\* stmtInsertLogWithId.run(...): ids = <<bufferId, dataId, msgtagsId, prefixId, paramsId>>
\* (seq and orig are history, no columns of the table)
logRow(m, ids) ==
    [user_id |-> m.userId, network_id |-> m.networkId, bufferref |-> ids[1],
     time |-> m.time, type |-> m.type, msgid |-> m.msgId, msgtagsref |-> ids[3],
     dataref |-> ids[2], prefixref |-> ids[4], paramsref |-> ids[5],
     seq |-> m.seq, orig |-> m.orig]

dbState == [data |-> data, dataCache |-> dataCache, interned |-> interned, ids |-> <<>>]

\* (mutant) pop() instead of shift()
shift_Pop(q) == [args |-> q[Len(q)], rest |-> SubSeq(q, 1, Len(q) - 1)]

\* this.storeQueue.shift(): the entry taken and the queue that is left
shift(q) == [args |-> Head(q), rest |-> Tail(q)]

\* db.inTransaction after this.db.exec('BEGIN').  The engine is not part of
\* the source: it may see a BEGIN issued through exec or, as the comment in
\* the later revision says, not see it.
execBegin(intx) == {intx, TRUE}

\* binding the JavaScript value undefined to a statement parameter.  The
\* engine is not part of the source: it may throw a TypeError or bind NULL.
BindUndefined == {"TypeError", "NULL"}

\* storeMessageLoop() entered with queue q, tables and cache s, open
\* transactions tx, this.storeQueueLooping = looping and db.inTransaction =
\* intx.  It returns at once when a loop is running or the queue is empty,
\* drops the head entry, or opens the ingest transaction for it:
\* db.transaction() in the tracked revision; exec('BEGIN') and the call of
\* the first dataId, up to its await, in the raw one.
storeMessageLoop(q, s, tx, looping, intx) ==
    IF looping \/ q = <<>> \/ isDropped(shift(q).args.args)
    THEN /\ storeQueue' = (IF looping \/ q = <<>> THEN q ELSE shift(q).rest)
         /\ storeQueueLooping' = looping
         /\ ing' = (IF looping THEN ing ELSE ingNone)
         /\ data' = s.data
         /\ assigned' = assigned \cup s.data
         /\ dataCache' = s.dataCache
         /\ interned' = s.interned
         /\ openTx' = tx
         /\ inTransaction' = intx
    ELSE LET m == fields(shift(q).args, now)
             s1 == dataId(s, m.bufferName)
         IN /\ storeQueue' = shift(q).rest
            /\ storeQueueLooping' = TRUE
            /\ openTx' = tx \cup {"ingest"}
            /\ IF variant = "tracked"
               THEN /\ ing' = [pc |-> "txn", m |-> m, ids |-> <<>>]
                    /\ inTransaction' = TRUE
                    /\ data' = s.data
                    /\ assigned' = assigned \cup s.data
                    /\ dataCache' = s.dataCache
                    /\ interned' = s.interned
               ELSE /\ ing' = [pc |-> "await", m |-> m, ids |-> s1.ids]
                    /\ inTransaction' \in execBegin(intx)
                    /\ data' = s1.data
                    /\ assigned' = assigned \cup s1.data
                    /\ dataCache' = s1.dataCache
                    /\ interned' = s1.interned

\* storeMessage(message, upstreamCon, clientCon)
storeMessage(a) ==
    /\ ThreadFree
    /\ nstores < MaxStores
    /\ nstores' = nstores + 1
    /\ lastStore' = a
    /\ storeMessageLoop(Append(storeQueue, [args |-> a, seq |-> nstores + 1]),
                        dbState, openTx, storeQueueLooping, inTransaction)
    /\ UNCHANGED <<reply, passes, variant, routerVars, retentionDaysChannels, retentionDaysPMs,
                   now, logs, immediates, cleanupRunning, ret, swept, lastSweep,
                   leftover, rejected, shutdown>>

StoreMessage == \E a \in Inputs : storeMessage(a)

\* the callback of setImmediate(() => this.storeMessageLoop())
LoopImmediate ==
    /\ LoopIdle
    /\ immediates > 0
    /\ immediates' = immediates - 1
    /\ storeMessageLoop(storeQueue, dbState, openTx, storeQueueLooping, inTransaction)
    /\ UNCHANGED <<reply, lastStore, passes, variant, routerVars, retentionDaysChannels,
                   retentionDaysPMs, now, logs, cleanupRunning, ret, nstores,
                   swept, lastSweep, leftover, rejected, shutdown>>

RECURSIVE internAll(_, _)
\* the dataId calls for the payloads ps, one after the other
internAll(s, ps) == IF ps = <<>> THEN s ELSE internAll(dataId(s, Head(ps)), Tail(ps))

\* what the statements of dataId(b) do with their parameter
bindings(b) == IF b = Undefined THEN BindUndefined ELSE {"bound"}

RECURSIVE beforeThrow(_)
\* the payloads whose dataId call returns before the one that throws
beforeThrow(ps) ==
    IF ps = <<>> \/ Head(ps) = Undefined THEN <<>>
    ELSE <<Head(ps)>> \o beforeThrow(Tail(ps))

\* the body of db.transaction(() => {...})() in storeMessageLoop, its commit,
\* and the rest of the function (tracked revision)
IngestTxn ==
    /\ variant = "tracked"
    /\ ing.pc = "txn"
    /\ \E u \in UNION { bindings(b) : b \in Range(payloads(ing.m)) } :
         IF u = "TypeError"
         THEN \* a dataId call throws: db.transaction() rolls back and throws
              \* again, storeMessageLoop ends with its promise rejected; the
              \* cache keeps what the calls before it have set
              /\ dataCache' = internAll(dbState, beforeThrow(payloads(ing.m))).dataCache
              /\ rejected' = rejected + 1
              /\ UNCHANGED <<data, assigned, interned, logs, storeQueueLooping, immediates>>
         ELSE LET s5 == internAll(dbState, payloads(ing.m))
              IN /\ data' = s5.data
                 /\ assigned' = assigned \cup s5.data
                 /\ dataCache' = s5.dataCache
                 /\ interned' = s5.interned
                 /\ logs' = Append(logs, logRow(ing.m, s5.ids))
                 /\ storeQueueLooping' = FALSE
                 /\ immediates' = immediates + 1
                 /\ UNCHANGED rejected
    /\ inTransaction' = FALSE
    /\ openTx' = openTx \ {"ingest"}
    /\ ing' = ingNone
    /\ UNCHANGED <<leftover, shutdown>>
    /\ UNCHANGED <<reply, lastStore, passes, variant, routerVars, retentionDaysChannels,
                   retentionDaysPMs, now, storeQueue, cleanupRunning, ret, nstores,
                   swept, lastSweep>>

\* one promise continuation of storeMessageLoop (raw revision): the next
\* `await this.dataId(...)`, or after the fifth the insert, exec('COMMIT')
\* and the recursive call of storeMessageLoop
IngestAwait ==
    /\ variant = "raw"
    /\ ing.pc = "await"
    /\ ThreadFree
    /\ IF Len(ing.ids) < 5
       THEN \E u \in bindings(payloads(ing.m)[Len(ing.ids) + 1]) :
              IF u = "TypeError"
              THEN \* dataId throws: storeMessageLoop ends with its promise
                   \* rejected, after exec('BEGIN') and without a COMMIT
                   /\ ing' = ingNone
                   /\ rejected' = rejected + 1
                   /\ UNCHANGED <<data, assigned, dataCache, interned, logs, storeQueue,
                                  storeQueueLooping, openTx, inTransaction>>
              ELSE LET s1 == dataId([dbState EXCEPT !.ids = ing.ids],
                                    payloads(ing.m)[Len(ing.ids) + 1])
                   IN /\ data' = s1.data
                      /\ assigned' = assigned \cup s1.data
                      /\ dataCache' = s1.dataCache
                      /\ interned' = s1.interned
                      /\ ing' = [ing EXCEPT !.ids = s1.ids]
                      /\ UNCHANGED <<logs, storeQueue, storeQueueLooping, openTx,
                                     inTransaction, rejected>>
       ELSE /\ logs' = Append(logs, logRow(ing.m, ing.ids))
            /\ storeMessageLoop(storeQueue, dbState, openTx \ {"ingest"}, FALSE, FALSE)
            /\ UNCHANGED rejected
    /\ UNCHANGED <<leftover, shutdown>>
    /\ UNCHANGED <<reply, lastStore, passes, variant, routerVars, retentionDaysChannels,
                   retentionDaysPMs, now, immediates, cleanupRunning, ret, nstores,
                   swept, lastSweep>>

\* the wall clock advances
Tick ==
    /\ LoopIdle
    /\ now < MaxTime
    /\ now' = now + 1
    /\ UNCHANGED <<reply, lastStore, passes, variant, routerVars, retentionDaysChannels,
                   retentionDaysPMs, data, assigned, logs, dataCache, storeQueue,
                   storeQueueLooping, ing, immediates, inTransaction, openTx,
                   cleanupRunning, ret, nstores, interned, swept, lastSweep,
                   leftover, rejected, shutdown>>

\* ------------------------------------------------------- retention cleanup
\* the five reference columns of a logs row
refs(row) == {row.bufferref, row.msgtagsref, row.dataref, row.prefixref, row.paramsref}

\* (mutant) only '#' marks a channel
isChannelName_HashOnly(b) == b # <<>> /\ b[1] = "#"

\* data LIKE '#%' OR data LIKE '&%'
isChannelName(b) == b # <<>> /\ b[1] \in {"#", "&"}

Min(a, b) == IF a < b THEN a ELSE b

RECURSIVE without(_, _, _)
\* the rows of lg whose position (counted from k) is not in S
without(lg, S, k) ==
    IF lg = <<>> THEN <<>>
    ELSE (IF k \in S THEN <<>> ELSE <<Head(lg)>>) \o without(Tail(lg), S, k + 1)

\* the cutoff of runRetentionCleanup: new Date() moved back by `days` days
cutoffTime(days) == now - days

\* (mutant) time <= ? instead of time < ?
expired_Inclusive(lg, tbl, days, isChannel) ==
    { i \in 1..Len(lg) :
        /\ lg[i].time <= cutoffTime(days)
        /\ \E d \in tbl : d.id = lg[i].bufferref /\ isChannelName(d.data) = isChannel }

\* the rows the inner SELECT of runRetentionCleanup may pick from: older than
\* the cutoff, in a buffer whose name is in data and is of the class
expired(lg, tbl, days, isChannel) ==
    { i \in 1..Len(lg) :
        /\ lg[i].time < cutoffTime(days)
        /\ \E d \in tbl : d.id = lg[i].bufferref /\ isChannelName(d.data) = isChannel }

\* runRetentionCleanup(days, isChannel, limit): the sets of positions of logs
\* the DELETE may remove.  The SELECT has a LIMIT and no ORDER BY, so any
\* `limit` of the expired rows may be the ones deleted.
runRetentionCleanup(days, isChannel, limit) ==
    IF days <= 0 THEN {{}}
    ELSE LET E == expired(logs, data, days, isChannel)
         IN { S \in SUBSET E : Cardinality(S) = Min(limit, Cardinality(E)) }

\* (mutant) no NOT EXISTS clause: every candidate is deleted
runDataCleanup_NoRefCheck(rows, tbl, lg) ==
    { d \in tbl : d.id \in UNION { refs(rows[i]) : i \in 1..Len(rows) } }

\* (mutant) only bufferref of the deleted rows gives candidates
runDataCleanup_BufferOnly(rows, tbl, lg) ==
    { d \in tbl : /\ d.id \in { rows[i].bufferref : i \in 1..Len(rows) }
                  /\ ~\E i \in 1..Len(lg) : d.id \in refs(lg[i]) }

\* runDataCleanup(deletedRows) on tables tbl and lg: the data rows its DELETE
\* removes.  A reference that is 0 or null is no candidate.
runDataCleanup(rows, tbl, lg) ==
    LET candidateIds == { id \in UNION { refs(rows[i]) : i \in 1..Len(rows) } : id # 0 }
    IN { d \in tbl : /\ d.id \in candidateIds
                     /\ ~\E i \in 1..Len(lg) : d.id \in refs(lg[i]) }

\* (mutant) the cache is kept after a sweep that deleted rows
cacheAfterCleanup_NoReset(deleted) == dataCache

\* (mutant) the cache is reset after every sweep
cacheAfterCleanup_AlwaysReset(deleted) == EmptyFn

\* this.dataCache after runDataCleanup removed the rows `deleted`:
\* dataCache.reset() when info.changes > 0
cacheAfterCleanup(deleted) == IF deleted # {} THEN EmptyFn ELSE dataCache

retentionDays(isChannel) ==
    IF isChannel THEN retentionDaysChannels ELSE retentionDaysPMs

\* runCleanupTask() has finished, with the transactions tx open and
\* db.inTransaction = intx: its finally block
cleanupDone(tx, intx) ==
    /\ cleanupRunning' = FALSE
    /\ ret' = retNone
    /\ openTx' = tx
    /\ inTransaction' = intx

\* the limit of `if (busyRetries++ > 50)`
MaxBusyRetries == 50

\* the head of the while loop of processRetention(days, isChannel), with
\* db.inTransaction = intx and busyRetries = busy <= 50: wait when a
\* transaction is open, else open the transaction of the next delete batch
loopHead(isChannel, total, busy, tx, intx) ==
    /\ cleanupRunning' = TRUE
    /\ IF intx
       THEN /\ ret' = [pc |-> "busy", isChannel |-> isChannel, busyRetries |-> busy + 1,
                       rows |-> <<>>, totalDeleted |-> total]
            /\ openTx' = tx
            /\ inTransaction' = intx
       ELSE /\ ret' = [pc |-> "batch", isChannel |-> isChannel, busyRetries |-> 0,
                       rows |-> <<>>, totalDeleted |-> total]
            /\ openTx' = tx \cup {"retention"}
            /\ inTransaction' = TRUE

\* runCleanupTask() goes on after the pass over a class ("start": before the
\* first): the next class that has a retention, or the end of the task
nextClass(after, total, tx, intx) ==
    IF after = "start" /\ retentionDaysChannels > 0
    THEN loopHead(TRUE, total, 0, tx, intx)
    ELSE IF after # "pms" /\ retentionDaysPMs > 0
    THEN loopHead(FALSE, total, 0, tx, intx)
    ELSE cleanupDone(tx, intx)

className(isChannel) == IF isChannel THEN "channels" ELSE "pms"

\* (mutant) runCleanupTask without its first line
passRunning_NoTest == FALSE

\* `if (this.cleanupRunning) return;` at the head of runCleanupTask
passRunning == cleanupRunning

\* `passes` after a step of the running runCleanupTask: the invocation has
\* ended when its finally block has cleared cleanupRunning
passesAfter ==
    IF cleanupRunning' THEN passes
    ELSE [passes EXCEPT !.active = @ - 1, !.dropped = 0]

\* the setInterval callback runCleanupTask, up to the first transaction; it
\* returns at once when a pass is running
CleanupTick ==
    /\ LoopIdle
    /\ retentionDaysChannels > 0 \/ retentionDaysPMs > 0
    /\ IF passRunning
       THEN /\ passes.dropped < MaxDroppedTicks
            /\ passes' = [passes EXCEPT !.dropped = @ + 1]
            /\ UNCHANGED <<cleanupRunning, ret, openTx, inTransaction, leftover>>
       ELSE /\ passes' = [passes EXCEPT !.active = @ + 1, !.errors = 0, !.raised = 0,
                                      !.gaveUp = 0]
            /\ leftover' = [old |-> leftover.old \cup leftover.new, new |-> {}]
            /\ nextClass("start", 0, openTx, inTransaction)
    /\ UNCHANGED <<reply, lastStore, variant, routerVars, retentionDaysChannels,
                   retentionDaysPMs, now, data, assigned, logs, dataCache, storeQueue,
                   storeQueueLooping, ing, immediates, nstores, interned, swept,
                   lastSweep, rejected, shutdown>>

\* (mutant) processRetention catches the error of a delete batch and goes on
\* with the next class
batchFailed_GoesOn(tx) ==
    /\ nextClass(className(ret.isChannel), ret.totalDeleted, tx, FALSE)
    /\ passes' = [passesAfter EXCEPT !.raised = @ + 1]

\* the transaction of a delete batch has thrown and rolled back: the catch
\* block of runCleanupTask counts the error, the finally block ends the task
batchFailed(tx) ==
    /\ cleanupDone(tx, FALSE)
    /\ passes' = [passesAfter EXCEPT !.errors = @ + 1, !.raised = @ + 1]

\* the delete batch of processRetention: the body of its transaction, the
\* commit, and the function up to the transaction of runDataCleanup; with no
\* row deleted, the end of the pass over the class.  The transaction may
\* fail (ok = FALSE; it does when an ingest transaction is open and the
\* engine has let the batch begin): it rolls back and throws.
RetentionBatch ==
    /\ ret.pc = "batch"
    /\ \E ok \in (IF "ingest" \in openTx THEN {FALSE} ELSE BOOLEAN) :
         IF ok
         THEN \E S \in runRetentionCleanup(retentionDays(ret.isChannel),
                                           ret.isChannel, BATCH_SIZE) :
                LET rows == without(logs, (1..Len(logs)) \ S, 1)
                    tx == openTx \ {"retention"}
                IN /\ logs' = without(logs, S, 1)
                   /\ IF rows # <<>>
                      THEN /\ ret' = [ret EXCEPT !.pc = "sweep", !.rows = rows]
                           /\ openTx' = tx \cup {"sweep"}
                           /\ inTransaction' = TRUE
                           /\ UNCHANGED cleanupRunning
                      ELSE nextClass(className(ret.isChannel), ret.totalDeleted,
                                     tx, FALSE)
                   /\ passes' = passesAfter
         ELSE /\ logs' = logs
              /\ batchFailed(openTx \ {"retention"})
    /\ UNCHANGED <<reply, lastStore, variant, routerVars, retentionDaysChannels,
                   retentionDaysPMs, now, data, assigned, dataCache, storeQueue,
                   storeQueueLooping, ing, immediates, nstores, interned, swept,
                   lastSweep, leftover, rejected, shutdown>>

\* the transaction of runDataCleanup(rows) and what follows it in
\* processRetention, up to `await setImmediate`.  The statement may fail
\* (ok = FALSE): the transaction rolls back and runDataCleanup throws, which
\* the tracked revision catches and the raw one lets end the whole task.
DataCleanup ==
    /\ ret.pc = "sweep"
    /\ \E ok \in BOOLEAN :
         LET orphans == runDataCleanup(ret.rows, data, logs)
             deleted == IF ok THEN orphans ELSE {}
             gone == { d.data : d \in deleted }
         IN /\ data' = data \ deleted
            /\ assigned' = assigned
            /\ dataCache' = cacheAfterCleanup(deleted)
            /\ interned' = [b \in DOMAIN interned \ gone |-> interned[b]]
            /\ swept' = swept \cup gone
            /\ lastSweep' = (IF ok THEN "done" ELSE "failed")
            /\ leftover' = IF ok
                           THEN [old |-> leftover.old \ gone, new |-> leftover.new \ gone]
                           ELSE [leftover EXCEPT !.new = @ \cup { d.data : d \in orphans }]
            /\ IF ok \/ variant = "tracked"
               THEN /\ ret' = [ret EXCEPT !.pc = "yield",
                                          !.totalDeleted = @ + Len(ret.rows)]
                    /\ openTx' = openTx \ {"sweep"}
                    /\ inTransaction' = FALSE
                    /\ UNCHANGED cleanupRunning
                    /\ passes' = passesAfter
               ELSE /\ cleanupDone(openTx \ {"sweep"}, FALSE)
                    /\ passes' = [passesAfter EXCEPT !.errors = @ + 1]
    /\ UNCHANGED <<reply, lastStore, variant, routerVars, retentionDaysChannels,
                   retentionDaysPMs, now, logs, storeQueue, storeQueueLooping, ing,
                   immediates, nstores, rejected, shutdown>>

\* (mutant) the loop goes on until a batch deletes nothing
more_UntilEmpty(rows) == rows # <<>>

\* `more` after a batch that deleted `rows`:
\* `if (rows.length < BATCH_SIZE) more = false`
more(rows) == ~(Len(rows) < BATCH_SIZE)

\* processRetention resumes after `await setImmediate`: the pass over the
\* class ends after a batch shorter than BATCH_SIZE, else the loop goes on
RetentionResume ==
    /\ LoopIdle
    /\ ret.pc = "yield"
    /\ IF more(ret.rows)
       THEN loopHead(ret.isChannel, ret.totalDeleted, ret.busyRetries, openTx, inTransaction)
       ELSE nextClass(className(ret.isChannel), ret.totalDeleted, openTx, inTransaction)
    /\ passes' = passesAfter
    /\ UNCHANGED <<reply, lastStore, variant, routerVars, retentionDaysChannels,
                   retentionDaysPMs, now, data, assigned, logs, dataCache, storeQueue,
                   storeQueueLooping, ing, immediates, nstores, interned, swept,
                   lastSweep, leftover, rejected, shutdown>>

\* `busyRetries++ > 50` with busyRetries = busy
retriesExceeded(busy) == busy > MaxBusyRetries

\* (mutant) `break` instead of `return`: the batch is started all the same
giveUp_RunsBatch ==
    /\ cleanupRunning' = TRUE
    /\ ret' = [ret EXCEPT !.pc = "batch", !.busyRetries = 0]
    /\ openTx' = openTx \cup {"retention"}
    /\ inTransaction' = TRUE

\* processRetention gives up: its `return`, after which runCleanupTask goes
\* on with the next class
giveUp == nextClass(className(ret.isChannel), ret.totalDeleted, openTx, inTransaction)

\* processRetention resumes after `await setTimeout(100)` and is at the head
\* of its loop again: it gives up and returns (runCleanupTask goes on with
\* the next class), waits once more, or opens the transaction of the batch
BusyWait ==
    /\ LoopIdle
    /\ ret.pc = "busy"
    /\ IF inTransaction /\ retriesExceeded(ret.busyRetries)
       THEN /\ giveUp
            /\ passes' = [passesAfter EXCEPT !.gaveUp = @ + 1]
       ELSE /\ loopHead(ret.isChannel, ret.totalDeleted, ret.busyRetries, openTx,
                        inTransaction)
            /\ passes' = passesAfter
    /\ UNCHANGED <<reply, lastStore, variant, routerVars, retentionDaysChannels,
                   retentionDaysPMs, now, data, assigned, logs, dataCache, storeQueue,
                   storeQueueLooping, ing, immediates, nstores, interned, swept,
                   lastSweep, leftover, rejected, shutdown>>

\* the shutdown of the process begins.  The store has no method for it and
\* keeps no handle of its interval timer: nothing of the store changes.
Shutdown ==
    /\ ThreadFree
    /\ ~shutdown
    /\ shutdown' = TRUE
    /\ UNCHANGED <<variant, routerVars, retentionDaysChannels, retentionDaysPMs, now, data, assigned,
                   logs, dataCache, storeQueue, storeQueueLooping, ing, immediates,
                   inTransaction, openTx, cleanupRunning, ret, nstores, interned,
                   swept, lastSweep, lastStore, passes, reply, leftover, rejected>>

\* ----------------------------------------------------------------- queries
\* a scalar SQL value: <<>> is NULL, <<v>> the value v.  A length argument
\* is written the same way: <<>> when the caller passes none.
\* `length || 50`
limit(length) ==
    IF length = <<>> \/ length[1] = 0 THEN DEFAULT_LENGTH ELSE length[1]

\* (SELECT time FROM logs WHERE msgid = :msgid): the values the scalar
\* subquery may have, the time of any one row with the msgid, or NULL
timeOfMsgid(lg, msgid) ==
    IF \E i \in 1..Len(lg) : lg[i].msgid = msgid
    THEN { <<lg[i].time>> : i \in { j \in 1..Len(lg) : lg[j].msgid = msgid } }
    ELSE { <<>> }

\* (mutant) a NULL cursor compares as 0
timeOk_NullIsZero(t, op, c) ==
    LET v == IF c = <<>> THEN 0 ELSE c[1]
    IN CASE op = "" -> TRUE
         [] op = ">" -> t > v
         [] op = ">=" -> t >= v
         [] op = "<" -> t < v
         [] op = "<=" -> t <= v

\* one `AND time <op> <c>` clause of a WHERE; a comparison with NULL is not
\* true, and op = "" is no clause
timeOk(t, op, c) ==
    CASE op = "" -> TRUE
      [] c = <<>> -> FALSE
      [] op = ">" -> t > c[1]
      [] op = ">=" -> t >= c[1]
      [] op = "<" -> t < c[1]
      [] op = "<=" -> t <= c[1]

\* the WHERE clause of the five SELECTs: the positions in lg of the rows it
\* keeps.  w = [op1, c1, op2, c2] are its conditions on time.
select(lg, tbl, userId, networkId, buffer, w) ==
    { i \in 1..Len(lg) :
        /\ lg[i].user_id = userId
        /\ lg[i].network_id = networkId
        /\ \E d \in tbl : d.data = buffer /\ d.id = lg[i].bufferref
        /\ timeOk(lg[i].time, w.op1, w.c1)
        /\ timeOk(lg[i].time, w.op2, w.c2) }

RECURSIVE orderBy(_, _, _)
\* ORDER BY logs.time [DESC] over the rows at positions S: every order of
\* the rows that is sorted by time (rows of equal time come in any order)
orderBy(lg, S, desc) ==
    IF S = {} THEN { <<>> }
    ELSE LET first == { i \in S : \A j \in S :
                          IF desc THEN lg[j].time <= lg[i].time
                                  ELSE lg[i].time <= lg[j].time }
         IN UNION { { <<i>> \o rest : rest \in orderBy(lg, S \ {i}, desc) } : i \in first }

\* LIMIT n
limitRows(ord, n) == SubSeq(ord, 1, Min(n, Len(ord)))

\* (mutant) rows.reverse() left out
reverse_Missing(rows) == rows

\* rows.reverse()
reverse(rows) == [i \in 1..Len(rows) |-> rows[Len(rows) + 1 - i]]

\* d_x.data of LEFT JOIN data d_x ON logs.xref = d_x.id
column(tbl, id) ==
    IF \E d \in tbl : d.id = id THEN (CHOOSE d \in tbl : d.id = id).data ELSE Null

\* one row of the SELECT (seq and orig are the history fields of the logs row)
resultRow(row, tbl) ==
    [user_id |-> row.user_id, network_id |-> row.network_id,
     buffer |-> column(tbl, row.bufferref), time |-> row.time, type |-> row.type,
     msgid |-> row.msgid, msgtags |-> column(tbl, row.msgtagsref),
     params |-> column(tbl, row.paramsref), data |-> column(tbl, row.dataref),
     prefix |-> column(tbl, row.prefixref), seq |-> row.seq, orig |-> row.orig]

\* JSON.parse of a text written by JSON.stringify(message.tags)
JSONparse(text) ==
    [i \in 1..((Len(text) - 1) \div 4) |-> <<text[4 * i - 2], text[4 * i]>>]

RECURSIVE split(_, _)
\* String.prototype.split(sep), sep one character
split(str, sep) ==
    IF \E i \in 1..Len(str) : str[i] = sep
    THEN LET i == CHOOSE k \in 1..Len(str) :
                    str[k] = sep /\ \A j \in 1..(k - 1) : str[j] # sep
         IN <<SubSeq(str, 1, i - 1)>> \o split(SubSeq(str, i + 1, Len(str)), sep)
    ELSE <<str>>

\* the command dbRowsToMessage gives a row
commandOf(type) ==
    IF type = MSG_TYPE_PRIVMSG THEN "PRIVMSG"
    ELSE IF type = MSG_TYPE_NOTICE THEN "NOTICE" ELSE ""

\* the IrcMessage dbRowsToMessage builds from one row
rowToMessage(row) ==
    LET tags == JSONparse(row.msgtags)
    IN [command |-> commandOf(row.type),
        prefix |-> row.prefix,
        tags |-> IF tagGet(tags, "time") # "" THEN tags
                 ELSE Append(tags, <<"time", isoTime(row.time)>>),
        params |-> Append(split(row.params, " "), row.data)]

\* dbRowsToMessage(rows) throws a TypeError on a row whose msgtags or params
\* is null
rowsThrow(rows) ==
    \E i \in 1..Len(rows) : rows[i].msgtags = Null \/ rows[i].params = Null

\* dbRowsToMessage(rows)
dbRowsToMessage(rows) == [i \in 1..Len(rows) |-> rowToMessage(rows[i])]

\* no endpoint: an object whose type is neither 'timestamp' nor 'msgid'
NoEndpoint == [type |-> "none", value |-> 0]

\* a query method has no try/catch: an exception thrown inside it is the
\* rejection of the promise its caller awaits
raises(failed) == failed

\* the part common to the five query methods: the SELECT with the time
\* conditions w, ordered descending and then reversed when desc, turned into
\* messages.  from, to and length are the arguments of the call as given.
query(op, userId, networkId, buffer, from, to, length, w, desc) ==
    /\ ThreadFree
    /\ \E ord \in orderBy(logs, select(logs, data, userId, networkId, buffer, w), desc) :
         LET picked == limitRows(ord, limit(length))
             found == [i \in 1..Len(picked) |-> resultRow(logs[picked[i]], data)]
             rows == IF desc THEN reverse(found) ELSE found
         IN reply' = [op |-> op, userId |-> userId, networkId |-> networkId,
                      buffer |-> buffer, from |-> from, to |-> to,
                      length |-> length, rows |-> rows,
                      failed |-> rowsThrow(rows),
                      error |-> raises(rowsThrow(rows)),
                      messages |-> IF rowsThrow(rows) THEN <<>>
                                   ELSE dbRowsToMessage(rows)]
    /\ UNCHANGED <<lastStore, passes, variant, routerVars, retentionDaysChannels,
                   retentionDaysPMs, now, data, assigned, logs, dataCache, storeQueue,
                   storeQueueLooping, ing, immediates, inTransaction, openTx,
                   cleanupRunning, ret, nstores, interned, swept, lastSweep,
                   leftover, rejected, shutdown>>

\* the arguments the query methods are called with
QueryBuffers == {Str_chan, Str_bob}
QueryMsgIds == {"m1", "m2", "zz"}
QueryTimes == 0..MaxTime
QueryLengths == {<<>>} \cup { <<n>> : n \in 0..MaxLength }
Timestamp(t) == [type |-> "timestamp", value |-> t]
MsgId(m) == [type |-> "msgid", value |-> m]

getMessagesFromMsgId ==
    \E buffer \in QueryBuffers, fromMsgId \in QueryMsgIds, length \in QueryLengths :
      \E c \in timeOfMsgid(logs, fromMsgId) :
        query("getMessagesFromMsgId", 1, 1, buffer, MsgId(fromMsgId), NoEndpoint,
              length, [op1 |-> ">", c1 |-> c, op2 |-> "", c2 |-> <<>>], FALSE)

getMessagesFromTime ==
    \E buffer \in QueryBuffers, fromTime \in QueryTimes, length \in QueryLengths :
        query("getMessagesFromTime", 1, 1, buffer, Timestamp(fromTime), NoEndpoint,
              length, [op1 |-> ">", c1 |-> <<fromTime>>, op2 |-> "", c2 |-> <<>>], FALSE)

getMessagesBeforeMsgId ==
    \E buffer \in QueryBuffers, msgId \in QueryMsgIds, length \in QueryLengths :
      \E c \in timeOfMsgid(logs, msgId) :
        query("getMessagesBeforeMsgId", 1, 1, buffer, NoEndpoint, MsgId(msgId),
              length, [op1 |-> "<=", c1 |-> c, op2 |-> "", c2 |-> <<>>], TRUE)

getMessagesBeforeTime ==
    \E buffer \in QueryBuffers, fromTime \in QueryTimes, length \in QueryLengths :
        query("getMessagesBeforeTime", 1, 1, buffer, NoEndpoint, Timestamp(fromTime),
              length, [op1 |-> "<=", c1 |-> <<fromTime>>, op2 |-> "", c2 |-> <<>>], TRUE)

\* the values of an endpoint of getMessagesBetween in its SQL condition
endpointTimes(lg, e) ==
    IF e.type = "timestamp" THEN { <<e.value>> }
    ELSE IF e.type = "msgid" THEN timeOfMsgid(lg, e.value)
    ELSE { <<>> }

BetweenFrom == {NoEndpoint, Timestamp(1), MsgId("m2"), MsgId("zz")}
BetweenTo == {NoEndpoint, Timestamp(2), MsgId("m1"), MsgId("zz")}

getMessagesBetween ==
    \E buffer \in QueryBuffers, from \in BetweenFrom, to \in BetweenTo,
       length \in QueryLengths :
      \E c1 \in endpointTimes(logs, from), c2 \in endpointTimes(logs, to) :
        query("getMessagesBetween", 1, 1, buffer, from, to, length,
              [op1 |-> IF from.type \in {"timestamp", "msgid"} THEN ">=" ELSE "",
               c1 |-> c1,
               op2 |-> IF to.type \in {"timestamp", "msgid"} THEN "<" ELSE "",
               c2 |-> c2], TRUE)

QueryOps == {"getMessagesFromMsgId", "getMessagesFromTime", "getMessagesBeforeMsgId",
             "getMessagesBeforeTime", "getMessagesBetween"}

\* a query method whose statement throws (a database error: SQLITE_BUSY
\* after busy_timeout, an I/O error)
QueryFails ==
    /\ ThreadFree
    /\ \E op \in QueryOps, buffer \in QueryBuffers :
         reply' = [op |-> op, userId |-> 1, networkId |-> 1, buffer |-> buffer,
                   from |-> NoEndpoint, to |-> NoEndpoint, length |-> <<>>,
                   rows |-> <<>>, failed |-> TRUE, error |-> raises(TRUE),
                   messages |-> <<>>]
    /\ UNCHANGED <<lastStore, passes, variant, routerVars, retentionDaysChannels,
                   retentionDaysPMs, now, data, assigned, logs, dataCache, storeQueue,
                   storeQueueLooping, ing, immediates, inTransaction, openTx,
                   cleanupRunning, ret, nstores, interned, swept, lastSweep,
                   leftover, rejected, shutdown>>

\* the caller of a query method has its result
QueryReturn ==
    /\ reply # NoReply
    /\ reply' = NoReply
    /\ UNCHANGED <<lastStore, passes, variant, routerVars, retentionDaysChannels,
                   retentionDaysPMs, now, data, assigned, logs, dataCache, storeQueue,
                   storeQueueLooping, ing, immediates, inTransaction, openTx,
                   cleanupRunning, ret, nstores, interned, swept, lastSweep,
                   leftover, rejected, shutdown>>

\* the messages stored in the behaviours with queries: their time tags
\* give the events of #c the times 2, 1 and 0 (the clock stays at 0)
QueryInputs ==
    { Arg("PRIVMSG", <<Str_chan, Str_hi>>,
          << <<"time", isoTime(2)>>, <<"msgid", "m1">> >>, Str_bob, <<>>),
      Arg("PRIVMSG", <<Str_chan, Str_hi>>,
          << <<"time", isoTime(1)>>, <<"msgid", "m2">> >>, Str_bob, <<>>),
      Arg("PRIVMSG", <<Str_me, Str_hi>>, << <<"msgid", "m1">> >>, Str_bob, <<>>),
      Arg("NOTICE", <<Str_chan, Str_bob, Str_hi>>, <<>>, Str_bob, <<>>) }

QueryStoreMessage == \E a \in QueryInputs : storeMessage(a)

\* the messages stored in the behaviours with malformed input: a PRIVMSG
\* that has a target and no body, and a well-formed one
FaultInputs ==
    { Arg("PRIVMSG", <<Str_chan>>, <<>>, Str_bob, <<>>),
      Arg("PRIVMSG", <<Str_chan, Str_hi>>, <<>>, Str_bob, <<>>) }

Next ==
    \/ StoreMessage
    \/ LoopImmediate
    \/ IngestTxn
    \/ IngestAwait
    \/ Tick
    \/ CleanupTick
    \/ RetentionBatch
    \/ DataCleanup
    \/ RetentionResume

Spec == Init /\ [][Next]_vars

\* the later revision with no retention configured, its clients storing
\* QueryInputs and calling the query methods
QueryInit == Init /\ variant = "tracked" /\ retentionDaysChannels = 0 /\ retentionDaysPMs = 0

QueryNext ==
    \/ QueryStoreMessage
    \/ LoopImmediate
    \/ IngestTxn
    \/ getMessagesFromMsgId
    \/ getMessagesFromTime
    \/ getMessagesBeforeMsgId
    \/ getMessagesBeforeTime
    \/ getMessagesBetween
    \/ QueryReturn

QuerySpec == QueryInit /\ [][QueryNext]_vars

\* the behaviours of QuerySpec with a database that may fail a query
QueryFaultNext == QueryNext \/ QueryFails

QueryFaultSpec == QueryInit /\ [][QueryFaultNext]_vars

\* both revisions with clients that also send a PRIVMSG without a body, and
\* a process that is told to shut down
FaultStoreMessage == \E a \in FaultInputs : storeMessage(a)

FaultNext ==
    \/ FaultStoreMessage
    \/ LoopImmediate
    \/ IngestTxn
    \/ IngestAwait
    \/ Tick
    \/ CleanupTick
    \/ RetentionBatch
    \/ DataCleanup
    \/ RetentionResume
    \/ BusyWait
    \/ Shutdown

FaultSpec == Init /\ [][FaultNext]_vars

\* Spec with the scheduling of the event loop: synchronous code runs to its
\* end, and a pending promise continuation or setImmediate callback is run.
\* A step of storeMessageLoop is enabled exactly while ing.pc # "none", so
\* the last conjunct is weak fairness of its steps.
FairSpec ==
    /\ Spec
    /\ WF_vars(RetentionBatch) /\ WF_vars(DataCleanup) /\ WF_vars(RetentionResume)
    /\ (<>[](ing.pc # "none") => []<><<IngestTxn \/ IngestAwait>>_vars)

\* ------------------------------------------------------------- replyrouter
\* Times of the replyrouter are integers; one unit is 30 seconds.

\* `const EXPECTING_TIMEOUT = 30000`
EXPECTING_TIMEOUT == 1

\* the reply tables the unit tests give their routes: WHO, LIST, and one
\* that ends with PRIVMSG
Replies_WHO == <<[cmd |-> "352", ending |-> FALSE], [cmd |-> "315", ending |-> TRUE]>>
Replies_LIST == <<[cmd |-> "322", ending |-> FALSE], [cmd |-> "323", ending |-> TRUE]>>
Replies_TEST == <<[cmd |-> "PRIVMSG", ending |-> TRUE]>>

\* the commands a client sends
ClientCommands == {"WHO", "LIST", "TEST", "PING"}

\* ReplyRouter.expectedReplies(msg): the reply table of the command, <<>>
\* standing for the falsy result of a command that has none
expectedReplies(command) ==
    CASE command = "WHO" -> Replies_WHO
      [] command = "LIST" -> Replies_LIST
      [] command = "TEST" -> Replies_TEST
      [] OTHER -> <<>>

\* the commands of the messages of the upstream
UpstreamCommands == {"352", "315", "323", "PRIVMSG", "privmsg", "001"}

\* String.prototype.toUpperCase on UpstreamCommands and ClientCommands
toUpperCase(command) == IF command = "privmsg" THEN "PRIVMSG" ELSE command

\* event.clients as the bouncer passes it: the clients of the upstream,
\* each once
EventClients ==
    { <<>>, <<"client-1">>, <<"client-2">>, <<"client-1", "client-2">>,
      <<"client-2", "client-1">> }

\* client.state.tempGet('expecting_replies') || []
tempGet(c) == expecting_replies[c].routes

\* the value of the key after tempSet('expecting_replies',
\* expecting.length > 0 ? expecting : null)
tempSet(expecting) ==
    IF Len(expecting) > 0 THEN [isNull |-> FALSE, routes |-> expecting] ELSE NoRoutes

\* expecting[i].replies.find(reply => reply.cmd === command)
expects(route, command) ==
    \E i \in 1..Len(route.replies) : route.replies[i].cmd = command

RECURSIVE clientsExpectingMsg(_, _)
\* the first forEach of the hook: the client is pushed once for every route
\* of its that expects the command
clientsExpectingMsg(clients, command) ==
    IF clients = <<>> THEN <<>>
    ELSE LET client == Head(clients)
             hits == Len(SelectSeq(tempGet(client), LAMBDA route : expects(route, command)))
         IN [i \in 1..hits |-> client] \o clientsExpectingMsg(Tail(clients), command)

\* route.replies.find(reply => reply.cmd === command && reply.ending)
isEnding(route, command) ==
    \E i \in 1..Len(route.replies) :
        route.replies[i].cmd = command /\ route.replies[i].ending

\* (mutant) >= instead of >
isStale_Inclusive(route, t) == (t - route.added) >= EXPECTING_TIMEOUT

\* (now - route.added) > EXPECTING_TIMEOUT
isStale(route, t) == (t - route.added) > EXPECTING_TIMEOUT

RECURSIVE spliceFrom(_, _, _, _)
\* forEach with splice(i, 1) from index i on: the route that moves into a
\* freed place is not visited
spliceFrom(expecting, i, command, t) ==
    IF i > Len(expecting) THEN expecting
    ELSE IF isEnding(expecting[i], command) \/ isStale(expecting[i], t)
    THEN spliceFrom(SubSeq(expecting, 1, i - 1) \o SubSeq(expecting, i + 1, Len(expecting)),
                    i + 1, command, t)
    ELSE spliceFrom(expecting, i + 1, command, t)

\* (mutant) forEach + splice instead of filter
filter_Splice(expecting, command, t) == spliceFrom(expecting, 1, command, t)

\* expecting.filter(route => !isEnding && !isStale)
filter(expecting, command, t) ==
    SelectSeq(expecting, LAMBDA route : ~isEnding(route, command) /\ ~isStale(route, t))

\* the message_from_client hook: a command that has expected replies adds a
\* route to the client's expecting_replies
MessageFromClient ==
    /\ nexpects < MaxExpects
    /\ \E client \in Clients, cmd \in ClientCommands :
         LET expectReplies == expectedReplies(cmd)
         IN IF expectReplies = <<>>
            THEN UNCHANGED expecting_replies
            ELSE expecting_replies' =
                   [expecting_replies EXCEPT ![client] =
                      [isNull |-> FALSE,
                       routes |-> Append(tempGet(client),
                                         [command |-> toUpperCase(cmd),
                                          replies |-> expectReplies,
                                          added |-> clock])]]
    /\ nexpects' = nexpects + 1
    /\ UNCHANGED <<event, clock>>
    /\ UNCHANGED storeVars

\* the message_to_clients hook
MessageToClients ==
    /\ \E cmd \in UpstreamCommands, clients \in EventClients :
         LET command == toUpperCase(cmd)
             expecting == clientsExpectingMsg(clients, command)
         IN IF Len(expecting) = 0
            THEN /\ event' = [command |-> command, clients |-> clients, routed |-> FALSE]
                 /\ UNCHANGED expecting_replies
            ELSE /\ event' = [command |-> command, clients |-> expecting, routed |-> TRUE]
                 /\ expecting_replies' =
                      [c \in Clients |->
                         IF c \in Range(expecting)
                         THEN tempSet(filter(tempGet(c), command, clock))
                         ELSE expecting_replies[c]]
    /\ UNCHANGED <<clock, nexpects>>
    /\ UNCHANGED storeVars

\* Date.now() moves on
RouterTick ==
    /\ clock < MaxClock
    /\ clock' = clock + 1
    /\ UNCHANGED <<expecting_replies, event, nexpects>>
    /\ UNCHANGED storeVars

\* the replyrouter alone: the store is idle
RouterInit == Init /\ variant = "tracked" /\ retentionDaysChannels = 0 /\ retentionDaysPMs = 0

RouterNext ==
    \/ MessageFromClient
    \/ MessageToClients
    \/ RouterTick

RouterSpec == RouterInit /\ [][RouterNext]_vars

\* ================================================================== claims
DataIds == { d.id : d \in data }
RefIds(lg) == UNION { refs(lg[i]) : i \in 1..Len(lg) }
isChannelRow(row) == \E d \in data : d.id = row.bufferref /\ isChannelName(d.data)

\* C1: whenever no retention or sweep transaction is open, each of the five
\* reference fields of every logs row is the id of an existing data row.
C1_RefsResolve ==
    (openTx \cap {"retention", "sweep"} = {}) => RefIds(logs) \subseteq DataIds

\* C1 witness: an orphan sweep has deleted payloads, events remain, and no
\* transaction is open.
C1_Witness == logs # <<>> /\ swept # {} /\ openTx = {}

\* C2: a completed runDataCleanup(rows) deletes exactly the data rows whose
\* id is in a reference field of `rows` and that no logs row references;
\* every other data row stays.
C2_CleanupDeletesExactly ==
    [][(ret.pc = "sweep" /\ lastSweep' = "done") =>
         /\ data' \subseteq data
         /\ \A d \in data :
              d \notin data' <=>
                 /\ \E i \in 1..Len(ret.rows) : d.id \in refs(ret.rows[i])
                 /\ d.id \notin RefIds(logs)]_vars

\* C2 witness: a sweep has just completed that deleted one candidate and
\* kept another one, which is still referenced.
C2_Witness ==
    /\ ret.pc = "yield"
    /\ lastSweep = "done"
    /\ \E id \in RefIds(ret.rows) : id \notin DataIds
    /\ \E id \in RefIds(ret.rows) : id \in DataIds /\ id \in RefIds(logs)

C4_NoOrphanAfterSweep ==
    (lastSweep = "done" /\ openTx = {}) => DataIds \subseteq RefIds(logs)

\* C5: the id dataId returned for a payload is the id of a data row that
\* holds this payload, also after the row was swept and the payload is
\* interned again.
C5_DataIdResolves ==
    \A b \in DOMAIN interned : [id |-> interned[b], data |-> b] \in data

\* C5 witness: a payload that an orphan sweep deleted was interned again.
C5_Witness == \E b \in swept : b \in DOMAIN interned

\* C6: as long as no orphan sweep deletes the row of a payload, dataId
\* returns the same id for it.
C6_DataIdStable ==
    [][\A b \in DOMAIN interned \cap DOMAIN interned' :
         interned'[b] = interned[b]]_vars

\* C6 witness: two events got the same data id, one of them after the cache
\* was reset by a sweep.
C6_Witness ==
    /\ swept # {}
    /\ dataCache # EmptyFn
    /\ \E i, j \in 1..Len(logs) : i < j /\ logs[i].dataref = logs[j].dataref

Committing ==
    \/ variant = "tracked" /\ ing.pc = "txn"
    \/ variant = "raw" /\ ing.pc = "await" /\ Len(ing.ids) = 5

\* C7: the data table holds at most one row per payload, and every ingest
\* transaction that commits adds exactly one logs row.
C7_OneRowPerPayload ==
    /\ [](\A d1, d2 \in data : d1.data = d2.data => d1 = d2)
    /\ [][/\ (Committing /\ ing' # ing) => Len(logs') = Len(logs) + 1
          /\ Len(logs') > Len(logs) => Committing /\ Len(logs') = Len(logs) + 1]_vars

\* C7 witness: the same message was stored twice: two logs rows that differ
\* in nothing but their call number, and one data row for each of its payloads.
C7_Witness ==
    /\ Len(logs) = 2
    /\ [logs[1] EXCEPT !.seq = 0] = [logs[2] EXCEPT !.seq = 0]
    /\ Cardinality(data) = Cardinality(refs(logs[1]))

\* C8: when no loop is running and none is scheduled, the store queue is
\* empty: every queued message is dequeued without a further store call.
C8_QueueDrains ==
    (LoopIdle /\ immediates = 0 /\ ~storeQueueLooping) => storeQueue = <<>>

\* C9: logs rows of the same user, network and buffer are in the order of
\* their storeMessage calls.
C9_StoreOrder ==
    \A i, j \in 1..Len(logs) :
        (/\ i < j
         /\ logs[i].user_id = logs[j].user_id
         /\ logs[i].network_id = logs[j].network_id
         /\ logs[i].bufferref = logs[j].bufferref) => logs[i].seq < logs[j].seq

\* C9 witness: two events of one buffer, with a storeMessage call for another
\* message in between.
C9_Witness ==
    \E i, j \in 1..Len(logs) :
        /\ i < j
        /\ logs[i].bufferref = logs[j].bufferref
        /\ logs[j].seq > logs[i].seq + 1

\* C10: a retention batch deletes only logs rows whose time is less than the
\* cutoff of the batch, now minus the retention days of its class.
C10_OnlyOlderThanCutoff ==
    [][\A i \in 1..Len(logs) :
         (\A j \in 1..Len(logs') : logs'[j].seq # logs[i].seq) =>
             logs[i].time < now - retentionDays(ret.isChannel)]_vars

\* C10 witness: a batch has deleted rows and kept a row of its class whose
\* time equals the cutoff.
C10_Witness ==
    /\ ret.pc = "sweep"
    /\ \E i \in 1..Len(logs) :
         /\ logs[i].time = now - retentionDays(ret.isChannel)
         /\ isChannelRow(logs[i]) = ret.isChannel

\* the buffer name of a logs row starts with # or &
C11_ChannelBuffer(row) ==
    \E d \in data : /\ d.id = row.bufferref
                    /\ (startsWith(d.data, <<"#">>) \/ startsWith(d.data, <<"&">>))

\* C11: a logs row is deleted only by a retention batch of its own class
\* (channel: the buffer name starts with # or &; PM: with neither), and only
\* when the retention days of that class are not 0.
C11_ClassesIndependent ==
    [][\A i \in 1..Len(logs) :
         (\A j \in 1..Len(logs') : logs'[j].seq # logs[i].seq) =>
             /\ ret.pc = "batch"
             /\ C11_ChannelBuffer(logs[i]) = ret.isChannel
             /\ IF C11_ChannelBuffer(logs[i])
                THEN retentionDaysChannels > 0 ELSE retentionDaysPMs > 0]_vars

\* C11 witness: a cleanup pass has ended that deleted the events of channel
\* &c, and with 0 retention days for PMs a PM event older than the retention
\* of channels is still there.
C11_Witness ==
    /\ ~cleanupRunning
    /\ lastSweep = "done"
    /\ Str_amp \in swept
    /\ retentionDaysPMs = 0
    /\ \E i \in 1..Len(logs) :
         ~C11_ChannelBuffer(logs[i]) /\ logs[i].time < now - retentionDaysChannels

\* the message is a PRIVMSG or NOTICE whose body is no CTCP other than ACTION
C12_Qualifies(a) ==
    /\ a.command \in {"PRIVMSG", "NOTICE"}
    /\ ~(/\ Len(a.params) >= 2
         /\ startsWith(a.params[2], <<SOH>>)
         /\ ~startsWith(a.params[2], <<SOH, "A", "C", "T", "I", "O", "N">>))

\* the store queue of a step before its dequeue: with the entry of the
\* storeMessage call when the step is one
C12_Queue ==
    IF nstores' > nstores
    THEN Append(storeQueue, [args |-> lastStore', seq |-> nstores'])
    ELSE storeQueue

\* C12: a dequeued message that qualifies enters the ingest transaction and
\* its commit appends exactly one logs row for it; a dequeued message that
\* does not qualify adds no data row and never has a logs row.
C12_Qualification ==
    /\ [](\A i \in 1..Len(logs) :
            /\ C12_Qualifies(logs[i].orig)
            /\ \A j \in 1..Len(logs) : i # j => logs[i].seq # logs[j].seq)
    /\ [][Len(storeQueue') < Len(C12_Queue) =>
            IF C12_Qualifies(Head(C12_Queue).args)
            THEN /\ ing'.pc # "none"
                 /\ ing'.m.seq = Head(C12_Queue).seq
                 /\ ing'.m.orig = Head(C12_Queue).args
            ELSE /\ data' = data
                 /\ ing'.pc = "none"
                 /\ \A j \in 1..Len(logs') : logs'[j].seq # Head(C12_Queue).seq]_vars
    /\ [][(Committing /\ ing' # ing) =>
            /\ Len(logs') = Len(logs) + 1
            /\ SubSeq(logs', 1, Len(logs)) = logs
            /\ logs'[Len(logs')].seq = ing.m.seq]_vars

\* C12 witness: an ACTION was stored and has its logs row, and the last call,
\* a JOIN, has left the queue without one.
C12_Witness ==
    /\ \E i \in 1..Len(logs) : logs[i].orig.params[2] = Str_action
    /\ lastStore.command = "JOIN"
    /\ storeQueue = <<>>
    /\ ing.pc = "none"
    /\ \A i \in 1..Len(logs) : logs[i].seq # nstores

Q_Pool ==
    { i \in 1..Len(logs) :
        /\ logs[i].user_id = reply.userId
        /\ logs[i].network_id = reply.networkId
        /\ \E d \in data : d.id = logs[i].bufferref /\ d.data = reply.buffer }

\* the events the query returned: positions in logs
Q_Returned ==
    { i \in 1..Len(logs) : \E k \in 1..Len(reply.rows) : reply.rows[k].seq = logs[i].seq }

\* the number of events the caller asked for: length, or 50 without one
Q_Wanted == IF reply.length = <<>> THEN DEFAULT_LENGTH ELSE reply.length[1]

\* the times an endpoint stands for: the timestamp, or the time of an event
\* with the msgid (none when no event has it)
Q_CursorTimes(e) ==
    IF e.type = "timestamp" THEN {e.value}
    ELSE { logs[i].time : i \in { j \in 1..Len(logs) : logs[j].msgid = e.value } }

\* the list returned holds only events of M, each once, as many as asked for
\* or all of M
Q_TakenFrom(M) ==
    /\ Len(reply.messages) = Len(reply.rows)
    /\ Q_Returned \subseteq M
    /\ Cardinality(Q_Returned) = Len(reply.rows)
    /\ Len(reply.rows) = Min(Q_Wanted, Cardinality(M))

\* the list returned is made of the earliest events of M
Q_Earliest(M) ==
    /\ Q_TakenFrom(M)
    /\ \A i \in M \ Q_Returned, j \in Q_Returned : logs[j].time <= logs[i].time

\* the list returned is made of the latest events of M
Q_Latest(M) ==
    /\ Q_TakenFrom(M)
    /\ \A i \in M \ Q_Returned, j \in Q_Returned : logs[j].time >= logs[i].time

\* the time of a returned message
Q_Time(msg) == parseTime(tagGet(msg.tags, "time"))

\* C13: the list a query returns is non-decreasing in time.
C13_SortedByTime ==
    reply.op # "none" =>
        \A i, j \in 1..Len(reply.messages) :
            i < j => Q_Time(reply.messages[i]) <= Q_Time(reply.messages[j])

\* C13 witness: a query that selects in descending order has returned two
\* events of different times, the later one stored first.
C13_Witness ==
    /\ reply.op = "getMessagesBeforeTime"
    /\ Len(reply.messages) = 2
    /\ Q_Time(reply.messages[1]) < Q_Time(reply.messages[2])
    /\ reply.rows[1].seq > reply.rows[2].seq

\* C14: getMessagesFromTime(t, n) and getMessagesFromMsgId(m, n) return the n
\* earliest events of the buffer whose time is greater than the cursor time,
\* or all of them when they are fewer than n.
C14_FromCursor ==
    reply.op \in {"getMessagesFromTime", "getMessagesFromMsgId"} =>
        IF Q_CursorTimes(reply.from) = {} THEN reply.messages = <<>>
        ELSE \E c \in Q_CursorTimes(reply.from) :
                 Q_Earliest({ i \in Q_Pool : logs[i].time > c })

\* C15: getMessagesBeforeTime(t, n) and getMessagesBeforeMsgId(m, n) return
\* the n latest events of the buffer whose time is at most the cursor time.
C15_BeforeCursor ==
    reply.op \in {"getMessagesBeforeTime", "getMessagesBeforeMsgId"} =>
        IF Q_CursorTimes(reply.to) = {} THEN reply.messages = <<>>
        ELSE \E c \in Q_CursorTimes(reply.to) :
                 Q_Latest({ i \in Q_Pool : logs[i].time <= c })

\* C16: getMessagesBetween(from, to, n) returns the n latest events of the
\* buffer with from-time <= time < to-time, an endpoint that is not given
\* setting no limit.
C16_Between ==
    reply.op = "getMessagesBetween" =>
        LET lo == IF reply.from.type = "none" THEN {0} ELSE Q_CursorTimes(reply.from)
            hi == IF reply.to.type = "none" THEN {MaxTime + 1} ELSE Q_CursorTimes(reply.to)
        IN IF lo = {} \/ hi = {} THEN reply.messages = <<>>
           ELSE \E c1 \in lo, c2 \in hi :
                    Q_Latest({ i \in Q_Pool : c1 <= logs[i].time /\ logs[i].time < c2 })

\* the query was called with a msgid that no stored event has
Q_UnknownMsgId ==
    \/ reply.from.type = "msgid" /\ Q_CursorTimes(reply.from) = {}
    \/ reply.to.type = "msgid" /\ Q_CursorTimes(reply.to) = {}

\* C17: a query called with a msgid that no stored event has returns the
\* empty list and raises no error.
C17_UnknownMsgId ==
    (reply.op # "none" /\ Q_UnknownMsgId) => reply.messages = <<>> /\ ~reply.error

\* C17 witness: getMessagesBetween was called with an unknown msgid as its
\* from endpoint on a buffer that holds events.
C17_Witness ==
    /\ reply.op = "getMessagesBetween"
    /\ reply.from = MsgId("zz")
    /\ reply.to.type = "none"
    /\ Q_Pool # {}

\* C18: a query returns at most `length` events, 0 included, and at most 50
\* when it is called without length.
C18_AtMostLength ==
    reply.op # "none" => Len(reply.messages) <= Q_Wanted

\* msgid of a message: tag draft/msgid or msgid
Q_MsgId(tags) ==
    IF tagGet(tags, "draft/msgid") # "" THEN tagGet(tags, "draft/msgid")
    ELSE tagGet(tags, "msgid")

\* C19: every record a query returns has the command, prefix (the nick of
\* the sender), params, data (the last parameter), msgid and tags.time of
\* the message it was stored from.
C19_RoundTrip ==
    reply.op # "none" =>
        \A k \in 1..Len(reply.messages) :
            LET msg == reply.messages[k]
                a == reply.rows[k].orig
            IN /\ msg.command = a.command
               /\ msg.prefix = (IF a.clientNick # <<>> THEN a.clientNick ELSE a.nick)
               /\ msg.params = a.params
               /\ msg.params[Len(msg.params)] = a.params[Len(a.params)]
               /\ Q_MsgId(msg.tags) = Q_MsgId(a.tags)
               /\ IF tagGet(a.tags, "time") # ""
                  THEN tagGet(msg.tags, "time") = tagGet(a.tags, "time")
                  ELSE Q_Time(msg) = reply.rows[k].time

\* ------------------------------------------------- claims on failure paths
\* C21: a PRIVMSG or NOTICE that lacks its target or its data parameter is
\* dropped silently: it gets no logs row, and no error results from it (no
\* storeMessageLoop promise is rejected).
C21_MalformedDropped ==
    /\ rejected = 0
    /\ \A i \in 1..Len(logs) : Len(logs[i].orig.params) >= 2

\* C22: a query that fails internally returns the empty list to its caller
\* and does not raise.
C22_FailureReturnsEmpty ==
    (reply.op # "none" /\ reply.failed) => (~reply.error /\ reply.messages = <<>>)

\* C23: once shutdown has begun, the cleanup timer starts no further
\* retention pass (the part of the claim that a finite behaviour refutes; the
\* queue being drained and the batch in flight finishing are the rest).
C23_NoPassAfterShutdown ==
    [][shutdown => passes'.active <= passes.active]_vars

\* C24: an orphan sweep that completes in a later cleanup cycle than a failed
\* one deletes the payloads the failed one has left orphaned: after it, none
\* of them is still a data row without a logs row.
C24_LeftoverSwept ==
    [][(ret.pc = "sweep" /\ lastSweep' = "done") =>
         \A b \in leftover.old :
             ~\E d \in data' : d.data = b /\ d.id \notin RefIds(logs')]_vars

\* C25: when runDataCleanup raises, the cycle goes on: the events of the
\* batch stay deleted and are added to the total, processRetention goes to
\* its yield and from there to the next batch or class, and no cleanup error
\* is counted.
C25_SweepFailureGoesOn ==
    [][(ret.pc = "sweep" /\ lastSweep' = "failed") =>
         /\ logs' = logs
         /\ cleanupRunning'
         /\ ret'.pc = "yield"
         /\ ret'.totalDeleted = ret.totalDeleted + Len(ret.rows)
         /\ passes'.errors = passes.errors]_vars

\* C26: when a retention delete batch raises, nothing is deleted, the cleanup
\* cycle ends at once (no batch or sweep is left open or pending), the
\* cleanup error counter goes up by one and cleanupRunning is cleared; it
\* stays cleared until a timer tick starts a new pass.
C26_BatchFailureStops ==
    /\ [][passes'.raised > passes.raised =>
            /\ logs' = logs
            /\ data' = data
            /\ ret'.pc = "none"
            /\ openTx' \cap {"retention", "sweep"} = {}
            /\ passes'.errors = passes.errors + 1
            /\ ~cleanupRunning']_vars
    /\ [](passes.raised > 0 => ~cleanupRunning /\ ret.pc = "none")

\* C26 witness: the first batch of a cycle has raised: the cycle is over with
\* one error counted, and an event older than the retention of its class,
\* which the batch would have deleted, is still there.
C26_Witness ==
    /\ passes.raised = 1
    /\ passes.errors = 1
    /\ ~cleanupRunning
    /\ \E i \in 1..Len(logs) :
         /\ C11_ChannelBuffer(logs[i])
         /\ retentionDaysChannels > 0
         /\ logs[i].time < now - retentionDaysChannels

\* C27: whenever a write transaction (ingest, retention delete or orphan
\* sweep) is open, the engine reports db.inTransaction = true.
C27_TrackedTransactions == openTx # {} => inTransaction

\* C28: while an ingest transaction is open, the only step that runs is the
\* next step of this ingest: no store call, timer, retention step or query
\* comes between its begin and its commit.
C28_NoSuspensionInTxn == [][("ingest" \in openTx) => ing' # ing]_vars

\* C29: while a transaction is open at the head of the retention loop, no
\* batch is started; the pass gives up after exactly 50 consecutive waits;
\* and a batch that is started leaves the retry counter at 0.
C29_BusyWait ==
    /\ [][(inTransaction /\ ret.pc \notin {"batch", "sweep"}) =>
            ret'.pc \notin {"batch", "sweep"}]_vars
    /\ [][passes'.gaveUp > passes.gaveUp => ret.busyRetries = MaxBusyRetries]_vars
    /\ [](ret.pc = "batch" => ret.busyRetries = 0)

C31_CacheInvalidation ==
    [][ret.pc = "sweep" =>
         IF data' # data THEN dataCache' = EmptyFn ELSE dataCache' = dataCache]_vars

\* C31 witness: an orphan sweep has just completed without deleting a row and
\* the cache still has entries, after an earlier sweep had deleted rows.
C31_Witness ==
    /\ ret.pc = "yield"
    /\ lastSweep = "done"
    /\ swept # {}
    /\ DOMAIN dataCache # {}

\* C32: a newly created data row gets an id greater than every id a data row
\* has had before, and no id is ever held by rows with different bytes, also
\* after the orphan sweep has deleted the row that had it.
C32_IdsMonotonic ==
    /\ [][\A d \in data' \ data : \A p \in assigned : d.id > p.id]_vars
    /\ [](\A p, q \in assigned : p.id = q.id => p.data = q.data)

\* the logs row is an event of the class: by the buffer of the message as
\* it was stored
C33_OfClass(row, isChannel) ==
    LET b == extractBufferName(row.orig)
    IN (startsWith(b, <<"#">>) \/ startsWith(b, <<"&">>)) = isChannel

\* C33: a retention pass over one class ends; each of its batches deletes at
\* most BATCH_SIZE rows; after a batch the pass goes on exactly when the
\* batch deleted BATCH_SIZE rows; and a batch that deletes fewer leaves no
\* event of the class older than its cutoff.
C33_PassTerminates ==
    /\ \A c \in BOOLEAN :
         (cleanupRunning /\ ret.isChannel = c) ~> ~(cleanupRunning /\ ret.isChannel = c)
    /\ [][ret.pc = "batch" => Len(logs) - Len(logs') <= BATCH_SIZE]_vars
    /\ [][ret.pc = "yield" /\ ret' # ret =>
            ((cleanupRunning' /\ ret'.isChannel = ret.isChannel)
               <=> Len(ret.rows) = BATCH_SIZE)]_vars
    /\ [][(/\ ret.pc = "batch"
           /\ passes'.raised = passes.raised
           /\ Len(logs) - Len(logs') < BATCH_SIZE) =>
            \A i \in 1..Len(logs') :
              C33_OfClass(logs'[i], ret.isChannel) =>
                  logs'[i].time >= now - retentionDays(ret.isChannel)]_vars

\* C33 witness: with a retention for PMs only, the pass has deleted a full
\* batch and then a shorter one, which is waiting for its setImmediate, and
\* no PM event older than the cutoff is left.
C33_Witness ==
    /\ ret.pc = "yield"
    /\ retentionDaysChannels = 0
    /\ ~ret.isChannel
    /\ ret.totalDeleted > BATCH_SIZE
    /\ Len(ret.rows) < BATCH_SIZE
    /\ \A i \in 1..Len(logs) :
         C33_OfClass(logs[i], FALSE) => logs[i].time >= now - retentionDaysPMs

\* C34: in the rows a query returns, two events of equal time come in the
\* order in which they were inserted.
C34_TiesInInsertionOrder ==
    reply.op # "none" =>
        \A i, j \in 1..Len(reply.rows) :
            (i < j /\ reply.rows[i].time = reply.rows[j].time) =>
                reply.rows[i].seq < reply.rows[j].seq

\* C35: storeQueueLooping is true only while an invocation of
\* storeMessageLoop that has dequeued a message is running, also after an
\* invocation whose transaction has thrown.
C35_LoopingOnlyWhileRunning == storeQueueLooping => ing.pc # "none"

\* the events of (userId, networkId, buffer) in lg
C36_Own(lg, userId, networkId, buffer) ==
    SelectSeq(lg, LAMBDA r : /\ r.user_id = userId
                             /\ r.network_id = networkId
                             /\ \E d \in data : d.id = r.bufferref /\ d.data = buffer)

\* the conditions on time of the query `op` with the cursors from and to,
\* asked of a store whose events are lg
C36_Where(lg, op, from, to) ==
    CASE op = "getMessagesFromMsgId" ->
           { [op1 |-> ">", c1 |-> c, op2 |-> "", c2 |-> <<>>] :
               c \in timeOfMsgid(lg, from.value) }
      [] op = "getMessagesFromTime" ->
           { [op1 |-> ">", c1 |-> <<from.value>>, op2 |-> "", c2 |-> <<>>] }
      [] op = "getMessagesBeforeMsgId" ->
           { [op1 |-> "<=", c1 |-> c, op2 |-> "", c2 |-> <<>>] :
               c \in timeOfMsgid(lg, to.value) }
      [] op = "getMessagesBeforeTime" ->
           { [op1 |-> "<=", c1 |-> <<to.value>>, op2 |-> "", c2 |-> <<>>] }
      [] op = "getMessagesBetween" ->
           { [op1 |-> IF from.type \in {"timestamp", "msgid"} THEN ">=" ELSE "",
              c1 |-> a,
              op2 |-> IF to.type \in {"timestamp", "msgid"} THEN "<" ELSE "",
              c2 |-> b] :
               a \in endpointTimes(lg, from), b \in endpointTimes(lg, to) }

\* the lists of rows the query may return from a store whose events are lg
C36_Results(lg, op, userId, networkId, buffer, from, to, length) ==
    LET desc == op \in {"getMessagesBeforeMsgId", "getMessagesBeforeTime",
                        "getMessagesBetween"}
        ords == UNION { orderBy(lg, select(lg, data, userId, networkId, buffer, w), desc) :
                          w \in C36_Where(lg, op, from, to) }
        rowsOf(ord) == LET picked == limitRows(ord, limit(length))
                           found == [i \in 1..Len(picked) |-> resultRow(lg[picked[i]], data)]
                       IN IF desc THEN reverse(found) ELSE found
    IN { rowsOf(ord) : ord \in ords }

\* C36: the rows a query for (user, network, buffer) returns are rows the
\* same query returns from a store that holds the events of that (user,
\* network, buffer) and no others.
C36_OwnEventsOnly ==
    reply.op # "none" =>
        reply.rows \in C36_Results(C36_Own(logs, reply.userId, reply.networkId, reply.buffer),
                                   reply.op, reply.userId, reply.networkId,
                                   reply.buffer, reply.from, reply.to, reply.length)

\* ------------------------------------------------ claims on the replyrouter

\* the step is a run of the message_to_clients hook that found clients
\* expecting the command
C37_Routed == clock' = clock /\ nexpects' = nexpects /\ event'.routed

\* the route lists the command as an ending reply
C37_Ends(route, command) ==
    \E i \in 1..Len(route.replies) :
        route.replies[i].cmd = command /\ route.replies[i].ending

C38_PrivmsgFastPath ==
    [][(clock' = clock /\ nexpects' = nexpects /\ event'.command = "PRIVMSG") =>
         expecting_replies' = expecting_replies]_vars

\* C39: when the hook has processed a client for a command it expects, the
\* routes the client is left with are, in their order, the ones that were
\* added no more than EXPECTING_TIMEOUT before and are not ended by the
\* command.
C39_StaleRoutesRemoved ==
    [][C37_Routed =>
         \A c \in Range(event'.clients) :
            expecting_replies'[c].routes =
                SelectSeq(expecting_replies[c].routes,
                          LAMBDA r : /\ ~(clock - r.added > EXPECTING_TIMEOUT)
                                     /\ ~C37_Ends(r, event'.command))]_vars

\* C39 witness: two routes of client-1 expected the 352 that was routed,
\* which ends none, and one of them is left: the other was too old.
C39_Witness ==
    /\ event.routed
    /\ event.command = "352"
    /\ event.clients = <<"client-1", "client-1">>
    /\ Len(expecting_replies["client-1"].routes) = 1
    /\ clock - expecting_replies["client-1"].routes[1].added = EXPECTING_TIMEOUT

\* C40: after the hook has routed a message, no client is in event.clients
\* twice.
C40_ClientsOnce ==
    event.routed =>
        \A i, j \in 1..Len(event.clients) :
            i # j => event.clients[i] # event.clients[j]

====
